---------------------------- MODULE Spec2Model ----------------------------
(***************************************************************************)
(* A model of the synthetic test-data generator.                           *)
(*                                                                         *)
(*   data_factory.py     schema pipeline: generate_data and its main       *)
(*   test_strategist.py  plan pipeline: generate_test_plan,                *)
(*                       get_ideal_row_count, generate_data_for_plan, main *)
(*                                                                         *)
(* Python dicts are ordered: a dict is a sequence of <<key, value>> pairs  *)
(* with unique keys.  Cell values are modelled by the text the CSV export  *)
(* writes for them, so every cell is a string.                             *)
(***************************************************************************)
EXTENDS Integers, Sequences, FiniteSets, TLC

VARIABLES
    \* ---- data_factory.py
    credential,      \* GEMINI_API_KEY as found at import: "absent", "rejected", "ok"
    gemini_enabled,  \* module flag set once by the import-time configuration
    schema,          \* argument of generate_data: [fields |-> dict name -> field_config]
    num_rows,        \* argument of generate_data
    test_type,       \* argument of generate_data: "positive", "negative", "mixed"
    fpc,             \* position in generate_data / main of data_factory
    row_i,           \* rows finished so far (loop variable i)
    field_j,         \* next field of the current row (position in fields.items())
    record,          \* the row being built
    data,            \* list of finished records
    fdf,             \* DataFrame returned by generate_data
    saved,           \* what df.to_csv wrote in data_factory.main
    lookups,         \* history: every registry lookup (row, field, type, case)
    ai_prompts,      \* history: every prompt sent to the text service
    \* ---- test_strategist.py
    pc,              \* position in main / generate_data_for_plan
    test_plan,       \* result of generate_test_plan
    rows_per_scenario,
    scen_i,          \* scenarios visited so far (loop variable i)
    all_test_data,   \* list of tagged rows
    df,              \* DataFrame returned by generate_data_for_plan
    df_full,         \* the full report written by main
    data_only_df,    \* the data-only export written by main
    calls,           \* history: number of text-service calls
    log              \* history: per visited scenario, its index and the response

fvars == <<credential, gemini_enabled, schema, num_rows, test_type, fpc, row_i,
           field_j, record, data, fdf, saved, lookups, ai_prompts>>
svars == <<pc, test_plan, rows_per_scenario, scen_i, all_test_data, df,
           df_full, data_only_df, calls, log>>
vars == <<fvars, svars>>

\* str(None), Python's None where a plan is expected, and pandas' missing cell.
None == "None"
NoPlan == [k |-> "None"]
NaN == "<NaN>"

----------------------------------------------------------------------------
\* Bounds of the model.

\* generate_data is asked for 1..MaxNumRows rows.
MaxNumRows == 2

\* A plan holds 0..MaxScenarios scenarios.
MaxScenarios == 2

\* generate_data_for_plan is asked for 0..MaxK rows per scenario.
MaxK == 1

\* The text service returns arrays of 0..MaxReturned elements.
MaxReturned == 2

\* The text service answers the row-count question in 0..MaxTextLen pieces.
MaxTextLen == 3

----------------------------------------------------------------------------
\* Ordered dicts.

DictHas(d, k) == \E n \in 1..Len(d) : d[n][1] = k

DictGet(d, k, default) ==
    IF DictHas(d, k) THEN d[CHOOSE n \in 1..Len(d) : d[n][1] = k][2] ELSE default

DictSet(d, k, v) ==
    IF DictHas(d, k)
    THEN [n \in 1..Len(d) |-> IF d[n][1] = k THEN <<k, v>> ELSE d[n]]
    ELSE Append(d, <<k, v>>)

DictKeys(d) == [n \in 1..Len(d) |-> d[n][1]]

SeqToSet(s) == {s[n] : n \in 1..Len(s)}

\* The keys of keys not yet in cols, appended in order.
RECURSIVE AddKeys(_, _)
AddKeys(cols, keys) ==
    IF keys = <<>> THEN cols
    ELSE AddKeys(IF Head(keys) \in SeqToSet(cols) THEN cols ELSE Append(cols, Head(keys)),
                 Tail(keys))

RECURSIVE ColumnsOf(_, _)
ColumnsOf(cols, rows) ==
    IF rows = <<>> THEN cols
    ELSE ColumnsOf(AddKeys(cols, DictKeys(Head(rows))), Tail(rows))

\* pd.DataFrame(list of dicts): the columns are the keys in order of first
\* appearance, a row lacking a column holds NaN there.
DataFrame(rows) ==
    LET cols == ColumnsOf(<<>>, rows) IN
    [columns |-> cols,
     rows |-> [n \in 1..Len(rows) |->
                 [c \in SeqToSet(cols) |-> DictGet(rows[n], c, NaN)]]]

\* DataFrame.empty: no row or no column.
DfEmpty(d) == Len(d.rows) = 0 \/ Len(d.columns) = 0

NoFrame == [columns |-> <<>>, rows |-> <<>>]

----------------------------------------------------------------------------
\* Texts of the text service.  A text is a sequence of pieces: whitespace,
\* a code fence (three backquotes), literal characters, or the serialisation
\* of one JSON value.

Ws == [t |-> "ws"]
Fence == [t |-> "fence"]
Chr(c) == [t |-> "chr", c |-> c]
Json(v) == [t |-> "json", v |-> v]

IsSpace(p) == p.t = "ws"

RECURSIVE LStrip(_)
LStrip(t) == IF t # <<>> /\ IsSpace(Head(t)) THEN LStrip(Tail(t)) ELSE t

RECURSIVE RStrip(_)
RStrip(t) ==
    IF t # <<>> /\ IsSpace(t[Len(t)]) THEN RStrip(SubSeq(t, 1, Len(t) - 1)) ELSE t

\* str.strip()
Strip(t) == RStrip(LStrip(t))

\* The characters of a text of whitespace and literal pieces.
RECURSIVE Join(_)
Join(t) ==
    IF t = <<>> THEN ""
    ELSE (IF Head(t).t = "chr" THEN Head(t).c ELSE " ") \o Join(Tail(t))

ServiceError == [kind |-> "error", text |-> <<>>]
Said(t) == [kind |-> "text", text |-> t]

----------------------------------------------------------------------------
\* data_factory.py

\* Import-time configuration: no key, or a failing configure, disables ai_text.
Configure(cred) == cred = "ok"

Cases == {"positive", "negative"}

TypeNames == {"name", "email", "password", "integer", "date", "uuid", "ai_text"}

LongName ==
    "AAAAAAAAAAAAAAAAAAAAAAAAAAAAAAAAAAAAAAAAAAAAAAAAAAAAAAAAAAAAAAAAAAA" \o
    "AAAAAAAAAAAAAAAAAAAAAAAAAAAAAAAAAAAAAAAAAAAAAAAAAAAAAAAAAAAAAAAAAAA" \o
    "AAAAAAAAAAAAAAAAAAAAAAAAAAAAAAAAAAAAAAAAAAAAAAAAAAAAAAAAAAAAAAAAAAA"

\* The values a niladic producer of TYPE_GENERATORS can return.  The Faker
\* producers are represented by sample values of the shape they return.
Producer(type, case) ==
    CASE type = "name"     /\ case = "positive" -> {"Aarav Sharma"}
      [] type = "name"     /\ case = "negative" -> {"", "Name123", LongName}
      [] type = "email"    /\ case = "positive" -> {"user@example.com"}
      [] type = "email"    /\ case = "negative" -> {"not-an-email"}
      [] type = "password" /\ case = "positive" -> {"aB3$efgh1JkL"}
      [] type = "password" /\ case = "negative" -> {"123"}
      [] type = "integer"  /\ case = "positive" -> {"0", "9999"}
      [] type = "integer"  /\ case = "negative" -> {"-1", "999.9", "abc"}
      [] type = "date"     /\ case = "positive" -> {"1999-12-31"}
      [] type = "date"     /\ case = "negative" -> {"2025-99-99"}
      [] type = "uuid"     /\ case = "positive" -> {"3f2b8c1e-7a4d-4e9b-9c0a-5d6e7f8a9b0c"}
      [] type = "uuid"     /\ case = "negative" -> {"not-a-uuid"}
      [] type = "ai_text"  /\ case = "negative" -> {"INVALID_AI_PROMPT"}
      [] OTHER -> {}

\* TYPE_GENERATORS.get(field_type, {}).get(current_case) is a producer.
HasGenerator(type, case) == type \in TypeNames /\ case \in Cases

\* The producer takes the prompt: only generate_ai_content does.
TakesPrompt(type, case) == type = "ai_text" /\ case = "positive"

\* current_case = test_type if test_type != 'mixed' else random.choice([...])
CurrentCaseNoDraw(tt, draw) == tt
CurrentCase(tt, draw) == IF tt # "mixed" THEN tt ELSE draw

\* generate_ai_content asks the service only when gemini_enabled.
AsksService(enabled) == enabled

\* generate_ai_content(prompt), given what the service would answer.
GenerateAiContent(enabled, resp) ==
    IF ~AsksService(enabled) THEN "AI_DISABLED"
    ELSE IF resp.kind = "error" THEN "AI_GENERATION_ERROR"
    ELSE Join(Strip(resp.text))

\* for i in range(num_rows): another row is due after i finished rows.
MoreRowsOffByOne(i, n) == i < n - 1
MoreRows(i, n) == i < n

Sentinel(type, case) == "NO_GENERATOR_FOR_" \o type \o "_" \o case

Fields(s) == s.fields

FieldCfg(name, type) == <<name, << <<"type", type>> >> >>
FieldCfgPrompt(name, type, prompt) ==
    <<name, << <<"type", type>>, <<"prompt", prompt>> >> >>

\* The schemas generate_data is called with.
Schemas ==
    { [fields |-> << FieldCfg("email", "email"), FieldCfg("pw", "password") >>],
      [fields |-> << FieldCfg("name", "name"), FieldCfg("age", "integer") >>],
      [fields |-> << FieldCfgPrompt("bio", "ai_text", "a short bio"),
                     FieldCfg("id", "uuid") >>],
      [fields |-> << FieldCfg("x", "foo"), FieldCfg("born", "date"),
                     FieldCfg("note", "ai_text") >>] }

TestTypes == {"positive", "negative", "mixed"}

\* What the text service can answer to generate_ai_content.
AiResponses ==
    { ServiceError,
      Said(<<Ws, Chr("Avid reader"), Ws>>),
      Said(<<Chr("Tea"), Ws, Chr("lover")>>) }

StrategistIdle ==
    /\ pc = "idle"
    /\ test_plan = NoPlan
    /\ rows_per_scenario = 0
    /\ scen_i = 0
    /\ all_test_data = <<>>
    /\ df = NoFrame
    /\ df_full = NoFrame
    /\ data_only_df = NoFrame
    /\ calls = 0
    /\ log = <<>>

InitFactory ==
    /\ credential \in {"absent", "rejected", "ok"}
    /\ gemini_enabled = Configure(credential)
    /\ schema \in Schemas
    /\ num_rows \in 1..MaxNumRows
    /\ test_type \in TestTypes
    /\ fpc = "rows"
    /\ row_i = 0
    /\ field_j = 1
    /\ record = <<>>
    /\ data = <<>>
    /\ fdf = NoFrame
    /\ saved = NoFrame
    /\ lookups = <<>>
    /\ ai_prompts = <<>>
    /\ StrategistIdle

\* for i in range(num_rows): record = {}
StartRow ==
    /\ fpc = "rows"
    /\ MoreRows(row_i, num_rows)
    /\ record' = <<>>
    /\ field_j' = 1
    /\ fpc' = "fields"
    /\ UNCHANGED <<credential, gemini_enabled, schema, num_rows, test_type, row_i,
                   data, fdf, saved, lookups, ai_prompts>>
    /\ UNCHANGED svars

\* One pass of the loop over fields.items().
GenField ==
    /\ fpc = "fields"
    /\ field_j <= Len(Fields(schema))
    /\ LET field_name == Fields(schema)[field_j][1]
           field_config == Fields(schema)[field_j][2]
           field_type == DictGet(field_config, "type", None)
       IN \E draw \in Cases :
          LET current_case == CurrentCase(test_type, draw)
              looked == [row |-> row_i + 1, field |-> field_name,
                         type |-> field_type, case |-> current_case]
          IN /\ lookups' = Append(lookups, looked)
             /\ IF HasGenerator(field_type, current_case)
                THEN IF field_type = "ai_text"
                     THEN IF TakesPrompt(field_type, current_case)
                          THEN \E resp \in AiResponses :
                                /\ record' = DictSet(record, field_name,
                                                     GenerateAiContent(gemini_enabled, resp))
                                /\ ai_prompts' =
                                     IF AsksService(gemini_enabled)
                                     THEN Append(ai_prompts,
                                                 DictGet(field_config, "prompt",
                                                         "generate random text"))
                                     ELSE ai_prompts
                                /\ field_j' = field_j + 1
                                /\ fpc' = fpc
                          \* the niladic lambda is called with the prompt: TypeError
                          ELSE /\ fpc' = "raised"
                               /\ UNCHANGED <<record, ai_prompts, field_j>>
                     ELSE \E v \in Producer(field_type, current_case) :
                            /\ record' = DictSet(record, field_name, v)
                            /\ field_j' = field_j + 1
                            /\ fpc' = fpc
                            /\ UNCHANGED ai_prompts
                ELSE /\ record' = DictSet(record, field_name,
                                          Sentinel(field_type, current_case))
                     /\ field_j' = field_j + 1
                     /\ fpc' = fpc
                     /\ UNCHANGED ai_prompts
    /\ UNCHANGED <<credential, gemini_enabled, schema, num_rows, test_type, row_i,
                   data, fdf, saved>>
    /\ UNCHANGED svars

\* data.append(record)
EndRow ==
    /\ fpc = "fields"
    /\ field_j > Len(Fields(schema))
    /\ data' = Append(data, record)
    /\ row_i' = row_i + 1
    /\ fpc' = "rows"
    /\ UNCHANGED <<credential, gemini_enabled, schema, num_rows, test_type, field_j,
                   record, fdf, saved, lookups, ai_prompts>>
    /\ UNCHANGED svars

\* return pd.DataFrame(data)
ReturnFrame ==
    /\ fpc = "rows"
    /\ ~MoreRows(row_i, num_rows)
    /\ fdf' = DataFrame(data)
    /\ fpc' = "returned"
    /\ UNCHANGED <<credential, gemini_enabled, schema, num_rows, test_type, row_i,
                   field_j, record, data, saved, lookups, ai_prompts>>
    /\ UNCHANGED svars

\* main: if not df.empty: df.to_csv(...)
SaveFrame ==
    /\ fpc = "returned"
    /\ saved' = IF DfEmpty(fdf) THEN saved ELSE fdf
    /\ fpc' = "done"
    /\ UNCHANGED <<credential, gemini_enabled, schema, num_rows, test_type, row_i,
                   field_j, record, data, fdf, lookups, ai_prompts>>
    /\ UNCHANGED svars

NextFactory == StartRow \/ GenField \/ EndRow \/ ReturnFrame \/ SaveFrame

SpecFactory == InitFactory /\ [][NextFactory]_vars

----------------------------------------------------------------------------
\* test_strategist.py: JSON values and the response-to-structure steps.

Arr(items) == [k |-> "array", items |-> items]
Obj(d) == [k |-> "object", d |-> d]
Str(x) == [k |-> "string", s |-> x]
Num(x) == [k |-> "number", n |-> x]
Null == [k |-> "null"]
\* An object with the top-level keys of a test plan, those in has.
PlanObj(has, fields, scenarios) ==
    [k |-> "plan", has |-> has, fields |-> fields, scenarios |-> scenarios]

\* text.replace("```json", ""): drops a fence directly followed by "json".
RECURSIVE DropJsonFences(_)
DropJsonFences(t) ==
    IF t = <<>> THEN <<>>
    ELSE IF Len(t) >= 2 /\ Head(t) = Fence /\ t[2] = Chr("json")
         THEN DropJsonFences(Tail(Tail(t)))
         ELSE <<Head(t)>> \o DropJsonFences(Tail(t))

\* text.replace("```", "")
DropFences(t) == SelectSeq(t, LAMBDA p : p # Fence)

\* response.text.strip().replace("```json", "").replace("```", "")
JsonText(t) == DropFences(DropJsonFences(Strip(t)))

\* json.loads: one JSON value, whitespace allowed around it, nothing else.
JsonLoads(t) ==
    LET body == SelectSeq(t, LAMBDA p : ~IsSpace(p)) IN
    IF Len(body) = 1 /\ body[1].t = "json"
    THEN [ok |-> TRUE, v |-> body[1].v]
    ELSE [ok |-> FALSE, v |-> Null]

\* generate_test_plan, given the service's answer: None on any exception,
\* len(plan['scenarios']) included.
GenerateTestPlan(resp) ==
    IF resp.kind = "error" THEN NoPlan
    ELSE LET parsed == JsonLoads(JsonText(resp.text)) IN
         IF ~parsed.ok THEN NoPlan
         ELSE IF parsed.v.k = "plan" /\ "scenarios" \in parsed.v.has
              THEN parsed.v
              ELSE NoPlan

\* main: `not test_plan`
Falsy(plan) == plan = NoPlan \/ (plan.k = "plan" /\ plan.has = {})

Digits == {"0", "1", "2", "3", "4", "5", "6", "7", "8", "9"}
DigitValue(c) ==
    CASE c = "0" -> 0 [] c = "1" -> 1 [] c = "2" -> 2 [] c = "3" -> 3 [] c = "4" -> 4
      [] c = "5" -> 5 [] c = "6" -> 6 [] c = "7" -> 7 [] c = "8" -> 8 [] c = "9" -> 9

RECURSIVE DigitsValue(_, _)
DigitsValue(acc, cs) ==
    IF cs = <<>> THEN acc
    ELSE DigitsValue(IF Head(cs) = "_" THEN acc ELSE acc * 10 + DigitValue(Head(cs)),
                     Tail(cs))

\* int(text): whitespace around, an optional sign, then digits, single
\* underscores allowed between digits.
ParseInt(t) ==
    LET s == Strip(t)
        literal == \A n \in 1..Len(s) : s[n].t = "chr"
        cs == [n \in 1..Len(s) |-> s[n].c]
        signed == cs # <<>> /\ cs[1] \in {"+", "-"}
        body == IF signed THEN Tail(cs) ELSE cs
        wellformed ==
            /\ body # <<>>
            /\ \A n \in 1..Len(body) : body[n] \in Digits \cup {"_"}
            /\ body[1] # "_" /\ body[Len(body)] # "_"
            /\ \A n \in 1..(Len(body) - 1) : ~(body[n] = "_" /\ body[n + 1] = "_")
    IN IF literal /\ wellformed
       THEN [ok |-> TRUE,
             v |-> IF signed /\ cs[1] = "-" THEN 0 - DigitsValue(0, body)
                   ELSE DigitsValue(0, body)]
       ELSE [ok |-> FALSE, v |-> 0]

\* return 3 # Fallback to a sensible default
FallbackRows == 3

\* get_ideal_row_count, given the service's answer.
GetIdealRowCount(resp) ==
    IF resp.kind = "error" THEN FallbackRows
    ELSE LET parsed == ParseInt(resp.text) IN
         IF parsed.ok THEN parsed.v ELSE FallbackRows

\* main: int(rows_input), 3 on ValueError.
TypedRowCount(input) ==
    LET parsed == ParseInt(input) IN IF parsed.ok THEN parsed.v ELSE FallbackRows

\* row['scenario_name'] = scenario_name; row['test_type'] = test_type
Tag(row, scenario) ==
    DictSet(DictSet(row, "scenario_name", scenario.scenario_name),
            "test_type", scenario.test_type)

\* The objects at the head of a returned array.
RECURSIVE ObjectPrefix(_)
ObjectPrefix(items) ==
    IF items = <<>> \/ Head(items).k # "object" THEN <<>>
    ELSE <<Head(items)>> \o ObjectPrefix(Tail(items))

\* As ScenarioRows, with each row appended as soon as it is tagged.
ScenarioRowsAppendInLoop(scenario, resp) ==
    IF resp.kind = "error" THEN [exc |-> "ServiceError", rows |-> <<>>]
    ELSE LET parsed == JsonLoads(JsonText(resp.text))
             v == parsed.v
         IN IF ~parsed.ok THEN [exc |-> "JSONDecodeError", rows |-> <<>>]
            ELSE IF v.k = "array"
                 THEN LET head == ObjectPrefix(v.items) IN
                      [exc |-> IF Len(head) = Len(v.items) THEN "none" ELSE "TypeError",
                       rows |-> [n \in 1..Len(head) |-> Tag(head[n].d, scenario)]]
                 ELSE IF \/ v.k = "object" /\ v.d = <<>>
                         \/ v.k = "string" /\ v.s = ""
                      THEN [exc |-> "none", rows |-> <<>>]
                      ELSE [exc |-> "TypeError", rows |-> <<>>]

\* The rows one pass of the scenario loop adds to all_test_data, and the
\* exception it ends with.  The rows are added by the one extend call that
\* follows the tagging loop, so an exception leaves none.
ScenarioRows(scenario, resp) ==
    IF resp.kind = "error" THEN [exc |-> "ServiceError", rows |-> <<>>]
    ELSE LET parsed == JsonLoads(JsonText(resp.text))
             v == parsed.v
         IN IF ~parsed.ok THEN [exc |-> "JSONDecodeError", rows |-> <<>>]
            ELSE IF v.k = "array"
                 THEN IF \A n \in 1..Len(v.items) : v.items[n].k = "object"
                      THEN [exc |-> "none",
                            rows |-> [n \in 1..Len(v.items) |-> Tag(v.items[n].d, scenario)]]
                      ELSE [exc |-> "TypeError", rows |-> <<>>]
                 \* an empty dict or string iterates over nothing
                 ELSE IF \/ v.k = "object" /\ v.d = <<>>
                         \/ v.k = "string" /\ v.s = ""
                      THEN [exc |-> "none", rows |-> <<>>]
                      ELSE [exc |-> "TypeError", rows |-> <<>>]

\* except Exception as e: every exception of the try body is handled.
HandledDecodeErrorOnly(exc) == exc = "JSONDecodeError"
Handled(exc) == exc \in {"ServiceError", "JSONDecodeError", "TypeError"}

cols_to_move == <<"scenario_name", "test_type">>

\* df[cols]
SelectColumns(d, cols) ==
    [columns |-> cols,
     rows |-> [n \in 1..Len(d.rows) |-> [c \in SeqToSet(cols) |-> d.rows[n][c]]]]

\* cols_to_move + [col for col in df.columns if col not in cols_to_move]
FullColumns(d) ==
    cols_to_move \o SelectSeq(d.columns, LAMBDA c : c \notin SeqToSet(cols_to_move))

\* df.drop(columns=cols)
DropFirstColumnOnly(d, cols) ==
    SelectColumns(d, SelectSeq(d.columns, LAMBDA c : c # cols[1]))
DropColumns(d, cols) ==
    SelectColumns(d, SelectSeq(d.columns, LAMBDA c : c \notin SeqToSet(cols)))

----------------------------------------------------------------------------
\* test_strategist.py: the inputs of the model.

\* The n-th scenario of a plan.
ScenarioAt(n) ==
    [scenario_name |-> "s" \o ToString(n),
     test_type |-> IF n % 2 = 1 THEN "positive" ELSE "negative",
     description |-> "d" \o ToString(n)]

Scenarios(n) == [m \in 1..n |-> ScenarioAt(m)]

FieldLists == { <<"email", "password">>, <<"email", "scenario_name">> }

\* Plans of the required shape, the one without scenarios and the one
\* without a "fields" key included.
Plans ==
    { PlanObj({"fields", "scenarios"}, f, Scenarios(n)) :
        f \in FieldLists, n \in 0..MaxScenarios }
    \cup { PlanObj({"scenarios"}, <<>>, Scenarios(n)) : n \in 0..MaxScenarios }

Fenced(v) == Said(<<Fence, Chr("json"), Ws, Json(v), Ws, Fence, Ws>>)
Bare(v) == Said(<<Json(v)>>)
Refusal == Said(<<Chr("Sorry, I cannot help with that.")>>)

\* What the text service can answer to generate_test_plan.
PlanResponses ==
    { ServiceError, Refusal, Bare(Arr(<<>>)), Bare(Obj(<<>>)),
      Bare(PlanObj({"fields"}, <<"email">>, <<>>)) }
    \cup { Fenced(p) : p \in Plans }

\* The n-th element of a returned array of len elements, by the array's kind.
RowItem(kind, n, len) ==
    LET e == <<"email", "e" \o ToString(n)>>
        p == <<"password", "p" \o ToString(n)>>
    IN CASE kind = "full"   -> Obj(<<e, p>>)
         [] kind = "ragged" -> IF n % 2 = 1 THEN Obj(<<e>>) ELSE Obj(<<p, e>>)
         [] kind = "tagged" -> Obj(<< <<"scenario_name", "zz">>, e >>)
         [] kind = "broken" -> IF n = len THEN Num("5") ELSE Obj(<<e, p>>)

ArrayOf(kind, len) == Arr([n \in 1..len |-> RowItem(kind, n, len)])

Arrays ==
    { ArrayOf(kind, len) :
        kind \in {"full", "ragged", "tagged", "broken"}, len \in 0..MaxReturned }

\* What the text service can answer to one scenario's request.
GenResponses ==
    { ServiceError, Refusal,
      Fenced(ArrayOf("full", MaxReturned)),
      Said(<<Fence, Ws, Chr("json"), Json(ArrayOf("full", MaxReturned)), Fence>>),
      Said(<<Chr("Here is the data:"), Ws, Json(ArrayOf("full", MaxReturned))>>),
      Bare(Obj(<< <<"email", "e1">> >>)), Bare(Obj(<<>>)), Bare(Str("")), Bare(Null) }
    \cup { Bare(a) : a \in Arrays }

\* The answers used where the whole of main runs.
MainGenResponses ==
    { ServiceError, Fenced(ArrayOf("full", MaxReturned)), Bare(ArrayOf("tagged", 1)),
      Bare(ArrayOf("ragged", MaxReturned)), Bare(Arr(<<>>)) }

CountAlphabet ==
    { Ws, Chr("-"), Chr("+"), Chr("_"), Chr("0"), Chr("1"), Chr("7"), Chr("x") }

\* What the text service can answer to get_ideal_row_count.
CountResponses ==
    { ServiceError }
    \cup { Said(t) : t \in UNION { [1..n -> CountAlphabet] : n \in 0..MaxTextLen } }

MainCountResponses ==
    { ServiceError, Said(<<Ws, Chr("2"), Ws>>), Said(<<Chr("0")>>) }

\* What the user can type for the rows per scenario, 'ideal' apart.
RowInputs == { <<Chr("1")>>, <<Chr("m"), Chr("a"), Chr("n"), Chr("y")>> }

FactoryIdle ==
    /\ credential = "ok"
    /\ gemini_enabled = Configure(credential)
    /\ schema = [fields |-> <<>>]
    /\ num_rows = 0
    /\ test_type = "positive"
    /\ fpc = "idle"
    /\ row_i = 0
    /\ field_j = 1
    /\ record = <<>>
    /\ data = <<>>
    /\ fdf = NoFrame
    /\ saved = NoFrame
    /\ lookups = <<>>
    /\ ai_prompts = <<>>

----------------------------------------------------------------------------
\* test_strategist.py: main and generate_data_for_plan.

\* test_plan = generate_test_plan(requirement); if not test_plan: return
MainPlan(resp) ==
    /\ pc = "plan"
    /\ test_plan' = GenerateTestPlan(resp)
    /\ pc' = IF Falsy(test_plan') THEN "stopped" ELSE "rows"
    /\ calls' = calls + 1
    /\ UNCHANGED <<rows_per_scenario, scen_i, all_test_data, df, df_full,
                   data_only_df, log>>
    /\ UNCHANGED fvars

\* rows_input is 'ideal', 'ai' or 'auto'
MainRowsIdeal(resp) ==
    /\ pc = "rows"
    /\ rows_per_scenario' = GetIdealRowCount(resp)
    /\ calls' = calls + 1
    /\ log' = <<[idx |-> 0, k |-> 0, fields |-> <<>>, resp |-> resp]>>
    /\ pc' = "generate"
    /\ UNCHANGED <<test_plan, scen_i, all_test_data, df, df_full, data_only_df>>
    /\ UNCHANGED fvars

\* rows_input is anything else
MainRowsTyped(input) ==
    /\ pc = "rows"
    /\ rows_per_scenario' = TypedRowCount(input)
    /\ log' = <<>>
    /\ pc' = "generate"
    /\ UNCHANGED <<test_plan, scen_i, all_test_data, df, df_full, data_only_df, calls>>
    /\ UNCHANGED fvars

\* One pass of the loop over plan["scenarios"].
GenStep(resp) ==
    /\ pc = "generate"
    /\ scen_i < Len(test_plan.scenarios)
    /\ LET scenario == test_plan.scenarios[scen_i + 1]
           fields == IF "fields" \in test_plan.has THEN test_plan.fields ELSE <<>>
           got == ScenarioRows(scenario, resp)
       IN /\ log' = Append(log, [idx |-> scen_i + 1, k |-> rows_per_scenario,
                                 fields |-> fields, resp |-> resp])
          /\ calls' = calls + 1
          /\ all_test_data' = all_test_data \o got.rows
          /\ IF got.exc = "none" \/ Handled(got.exc)
             THEN /\ scen_i' = scen_i + 1
                  /\ pc' = pc
             ELSE /\ pc' = "raised"
                  /\ UNCHANGED scen_i
    /\ UNCHANGED <<test_plan, rows_per_scenario, df, df_full, data_only_df>>
    /\ UNCHANGED fvars

\* return pd.DataFrame(all_test_data)
GenReturn ==
    /\ pc = "generate"
    /\ scen_i >= Len(test_plan.scenarios)
    /\ df' = DataFrame(all_test_data)
    /\ pc' = "export"
    /\ UNCHANGED <<test_plan, rows_per_scenario, scen_i, all_test_data, df_full,
                   data_only_df, calls, log>>
    /\ UNCHANGED fvars

\* main: if not df.empty: the two to_csv calls
MainExport ==
    /\ pc = "export"
    /\ IF DfEmpty(df)
       THEN UNCHANGED <<df_full, data_only_df>>
       ELSE /\ df_full' = SelectColumns(df, FullColumns(df))
            /\ data_only_df' = DropColumns(df, cols_to_move)
    /\ pc' = "done"
    /\ UNCHANGED <<test_plan, rows_per_scenario, scen_i, all_test_data, df, calls, log>>
    /\ UNCHANGED fvars

StrategistFresh ==
    /\ scen_i = 0
    /\ all_test_data = <<>>
    /\ df = NoFrame
    /\ df_full = NoFrame
    /\ data_only_df = NoFrame
    /\ calls = 0
    /\ log = <<>>

\* The whole of main.
InitMain ==
    /\ pc = "plan"
    /\ test_plan = NoPlan
    /\ rows_per_scenario = 0
    /\ StrategistFresh
    /\ FactoryIdle

NextMain ==
    \/ \E resp \in PlanResponses : MainPlan(resp)
    \/ \E resp \in MainCountResponses : MainRowsIdeal(resp)
    \/ \E input \in RowInputs : MainRowsTyped(input)
    \/ \E resp \in MainGenResponses : GenStep(resp)
    \/ GenReturn
    \/ MainExport

SpecMain == InitMain /\ [][NextMain]_vars

\* generate_data_for_plan on every plan and row count.
InitPlan ==
    /\ pc = "generate"
    /\ test_plan \in Plans
    /\ rows_per_scenario \in 0..MaxK
    /\ StrategistFresh
    /\ FactoryIdle

NextPlan ==
    \/ \E resp \in GenResponses : GenStep(resp)
    \/ GenReturn

SpecPlan == InitPlan /\ [][NextPlan]_vars

\* get_ideal_row_count on every plan and answer.
InitAdvise ==
    /\ pc = "rows"
    /\ test_plan \in Plans
    /\ rows_per_scenario = 0
    /\ StrategistFresh
    /\ FactoryIdle

NextAdvise == \E resp \in CountResponses : MainRowsIdeal(resp)

SpecAdvise == InitAdvise /\ [][NextAdvise]_vars

----------------------------------------------------------------------------
\* Properties of data_factory.py, checked under SpecFactory.

FieldCount == Len(Fields(schema))
FieldName(j) == Fields(schema)[j][1]
FieldType(j) == DictGet(Fields(schema)[j][2], "type", None)
FieldNames == [j \in 1..FieldCount |-> FieldName(j)]
\* The case the registry was looked up with for field j of row n.
CaseOf(n, j) == lookups[(n - 1) * FieldCount + j].case
Returned == fpc \in {"returned", "done"}

\* C4: generate_data(schema, N, 'positive') with N > 0 returns exactly N
\* records, each with exactly the schema's field names in schema order,
\* unknown types and ai_text fields included; it does not raise.
C4_PositiveRowsAndFields ==
    test_type = "positive" =>
        /\ fpc # "raised"
        /\ \A n \in 1..Len(data) : DictKeys(data[n]) = FieldNames
        /\ Returned =>
             /\ Len(fdf.rows) = num_rows
             /\ fdf.columns = FieldNames
             /\ \A n \in 1..Len(fdf.rows) :
                  /\ DOMAIN fdf.rows[n] = SeqToSet(FieldNames)
                  /\ \A c \in SeqToSet(FieldNames) : fdf.rows[n][c] # NaN

C4_Witness ==
    /\ fpc = "done"
    /\ test_type = "positive"
    /\ num_rows = 2
    /\ Len(saved.rows) = 2
    /\ \E j \in 1..FieldCount : FieldType(j) = "foo"
    /\ \E j \in 1..FieldCount : FieldType(j) = "ai_text"

UnknownFields == {j \in 1..FieldCount : FieldType(j) \notin TypeNames}

\* C7: with a field whose type is not in TYPE_GENERATORS, generate_data
\* never raises, every row holds NO_GENERATOR_FOR_<type>_<case> in that
\* field for the case resolved for it, the other fields are generated by
\* their producers, and all N rows are produced.
C7_UnknownTypeGetsSentinel ==
    UnknownFields # {} =>
        /\ fpc # "raised"
        /\ \A n \in 1..Len(data) : \A j \in 1..FieldCount :
             LET cell == DictGet(data[n], FieldName(j), NaN) IN
             IF j \in UnknownFields
             THEN cell = Sentinel(FieldType(j), CaseOf(n, j))
             ELSE \/ cell \in Producer(FieldType(j), CaseOf(n, j))
                  \/ FieldType(j) = "ai_text" /\ cell # NaN
        /\ Returned => Len(fdf.rows) = num_rows

\* C9: under 'mixed' the case is resolved for each field of each row, one
\* lookup per (row, field) pair in loop order, always 'positive' or
\* 'negative' and never 'mixed'; under a fixed policy every lookup uses it.
C9_CaseResolvedPerField ==
    /\ \A n \in 1..Len(lookups) :
         /\ lookups[n].case \in Cases
         /\ test_type # "mixed" => lookups[n].case = test_type
         /\ lookups[n].row = ((n - 1) \div FieldCount) + 1
         /\ lookups[n].field = FieldName(((n - 1) % FieldCount) + 1)
    /\ Len(lookups) <= num_rows * FieldCount
    /\ Returned => Len(lookups) = num_rows * FieldCount

\* A mixed run where one row has fields of different cases and one field
\* is positive in the first row and negative in the second.
C9_Witness ==
    /\ fpc = "done"
    /\ test_type = "mixed"
    /\ FieldCount = 2
    /\ num_rows = 2
    /\ CaseOf(1, 1) = "positive" /\ CaseOf(1, 2) = "negative"
    /\ CaseOf(2, 1) = "negative" /\ CaseOf(2, 2) = "negative"

\* C10: when the text service is unavailable at startup the flag is off,
\* the service is never asked, every positive ai_text field of every row
\* holds AI_DISABLED, and generate_data still produces the full Dataset.
C10_DisabledStillProducesDataset ==
    credential # "ok" =>
        /\ ~gemini_enabled
        /\ ai_prompts = <<>>
        /\ \A n \in 1..Len(data) : \A j \in 1..FieldCount :
             (FieldType(j) = "ai_text" /\ CaseOf(n, j) = "positive")
                 => DictGet(data[n], FieldName(j), NaN) = "AI_DISABLED"
        /\ fpc # "raised"
        /\ Returned => Len(fdf.rows) = num_rows

\* What holds of C7 and C10 as long as no ai_text field meets the negative case.
FactoryPartial ==
    /\ fpc = "raised" =>
         /\ lookups[Len(lookups)].type = "ai_text"
         /\ lookups[Len(lookups)].case = "negative"
    /\ UnknownFields # {} =>
         \A n \in 1..Len(data) : \A j \in UnknownFields :
             DictGet(data[n], FieldName(j), NaN) = Sentinel(FieldType(j), CaseOf(n, j))
    /\ credential # "ok" =>
         /\ ~gemini_enabled
         /\ ai_prompts = <<>>
         /\ \A n \in 1..Len(data) : \A j \in 1..FieldCount :
              (FieldType(j) = "ai_text" /\ CaseOf(n, j) = "positive")
                  => DictGet(data[n], FieldName(j), NaN) = "AI_DISABLED"
    /\ Returned => Len(fdf.rows) = num_rows

\* The flag is set at import and never written again.
FlagFixed == [][gemini_enabled' = gemini_enabled]_vars

----------------------------------------------------------------------------
\* Properties of test_strategist.py.

Provenance == {"scenario_name", "test_type"}

\* The objects the service returned for a visited scenario when its answer
\* is an array of objects, and nothing otherwise.
ReturnedItems(entry) ==
    IF entry.resp.kind # "text" THEN <<>>
    ELSE LET parsed == JsonLoads(JsonText(entry.resp.text)) IN
         IF /\ parsed.ok
            /\ parsed.v.k = "array"
            /\ \A n \in 1..Len(parsed.v.items) : parsed.v.items[n].k = "object"
         THEN parsed.v.items
         ELSE <<>>

\* The returned objects of the first n visited scenarios, each with the
\* index of its scenario, in the order of the visits.
RECURSIVE ExpectedRows(_)
ExpectedRows(n) ==
    IF n = 0 THEN <<>>
    ELSE LET items == ReturnedItems(log[n]) IN
         ExpectedRows(n - 1) \o
             [m \in 1..Len(items) |-> [scenario |-> log[n].idx, row |-> items[m].d]]

GenReturned == pc \in {"export", "done"}

\* C1: generate_data_for_plan visits the scenarios once each in plan order,
\* never raises on a failed scenario, and returns exactly the rows of the
\* scenarios that succeeded, grouped in plan order and in the service's
\* order inside a scenario, each tagged with its scenario's scenario_name
\* and test_type; a failed scenario contributes no row.
C1_FailedScenariosAreSkipped ==
    /\ pc # "raised"
    /\ Len(log) = scen_i
    /\ \A n \in 1..Len(log) : log[n].idx = n
    /\ GenReturned =>
         LET expected == ExpectedRows(Len(log)) IN
         /\ scen_i = Len(test_plan.scenarios)
         /\ Len(df.rows) = Len(expected)
         /\ \A j \in 1..Len(expected) :
              LET scenario == test_plan.scenarios[expected[j].scenario] IN
              /\ df.rows[j]["scenario_name"] = scenario.scenario_name
              /\ df.rows[j]["test_type"] = scenario.test_type
              /\ \A c \in SeqToSet(df.columns) \ Provenance :
                   df.rows[j][c] = DictGet(expected[j].row, c, NaN)
              /\ SeqToSet(DictKeys(expected[j].row)) \subseteq SeqToSet(df.columns)

\* Two scenarios, the first failed and the second answered with two rows.
C1_Witness ==
    /\ pc = "export"
    /\ Len(log) = 2
    /\ log[1].resp = ServiceError
    /\ Len(ReturnedItems(log[2])) = 2
    /\ Len(df.rows) = 2
    /\ df.rows[1]["scenario_name"] = "s2"

\* C2: a plan with an empty scenarios list is never handed on by plan
\* synthesis: it reaches neither the row-count step nor the generation.
C2_EmptyPlanIsRejected ==
    pc \in {"rows", "generate", "export", "done"} => Len(test_plan.scenarios) > 0

\* C3: get_ideal_row_count returns an integer >= 1 whatever the service
\* answers, and exactly the fallback 3 when the call or the parse fails.
C3_AdviceAtLeastOne ==
    pc = "generate" =>
        /\ rows_per_scenario >= 1
        /\ (log[1].resp.kind = "error" \/ ~ParseInt(log[1].resp.text).ok)
               => rows_per_scenario = FallbackRows

\* C5: every record handed to the export has the same field names, a key
\* that a row lacks (one other rows have, or one of the plan's fields)
\* being present with a value instead of missing.
C5_RowsArePadded ==
    (GenReturned /\ ~DfEmpty(df)) =>
        /\ SeqToSet(test_plan.fields) \subseteq SeqToSet(df.columns)
        /\ \A n \in 1..Len(df.rows) : \A c \in SeqToSet(df.columns) :
             df.rows[n][c] # NaN

Succeeded(entry) == ScenarioRows(test_plan.scenarios[entry.idx], entry.resp).exc = "none"

SucceededCount == Cardinality({n \in 1..Len(log) : Succeeded(log[n])})

\* C6, as claimed: at most k rows for each scenario that succeeded, so at
\* most k times the number of succeeded scenarios in all (stated for the
\* requests of at least one row).
C6_AtMostKRowsPerScenario ==
    (GenReturned /\ rows_per_scenario >= 1) =>
        /\ \A n \in 1..Len(log) :
             Succeeded(log[n]) => Len(ReturnedItems(log[n])) <= rows_per_scenario
        /\ Len(df.rows) <= rows_per_scenario * SucceededCount

RECURSIVE ReturnedTotal(_)
ReturnedTotal(n) ==
    IF n = 0 THEN 0 ELSE ReturnedTotal(n - 1) + Len(ReturnedItems(log[n]))

\* C6, amended: a scenario that succeeded contributes exactly the rows of
\* the returned array, however many they are, and a failed one none; the
\* total is at most k per succeeded scenario when no returned array is
\* longer than k.
C6_TakesWhatIsReturned ==
    GenReturned =>
        /\ \A n \in 1..Len(log) :
             Cardinality({j \in 1..Len(df.rows) :
                            df.rows[j]["scenario_name"] =
                                test_plan.scenarios[n].scenario_name})
                 = Len(ReturnedItems(log[n]))
        /\ Len(df.rows) = ReturnedTotal(Len(log))
        /\ (\A n \in 1..Len(log) : Len(ReturnedItems(log[n])) <= rows_per_scenario)
               => Len(df.rows) <= rows_per_scenario * SucceededCount

\* One row was asked for and the scenario's answer holds two.
C6_Witness ==
    /\ pc = "export"
    /\ rows_per_scenario = 1
    /\ Len(log) = 1
    /\ Len(ReturnedItems(log[1])) = 2
    /\ Len(df.rows) = 2

\* C8: the full report and the data-only export are cut from the one
\* Dataset generate_data_for_plan returned, with no further service call:
\* same rows in the same order, equal values in shared columns, the full
\* report with scenario_name and test_type first and then every other
\* column, the data-only export without exactly these two columns, also
\* when the plan's fields name one of them.
C8_ExportsShareOneDataset ==
    /\ GenReturned => calls = 1 + Len(log)
    /\ (pc = "done" /\ ~DfEmpty(df)) =>
         /\ Len(df_full.rows) = Len(df.rows)
         /\ Len(data_only_df.rows) = Len(df.rows)
         /\ SubSeq(df_full.columns, 1, 2) = cols_to_move
         /\ SubSeq(df_full.columns, 3, Len(df_full.columns))
                = SelectSeq(df.columns, LAMBDA c : c \notin Provenance)
         /\ data_only_df.columns = SelectSeq(df.columns, LAMBDA c : c \notin Provenance)
         /\ SeqToSet(df.columns) \ SeqToSet(data_only_df.columns) = Provenance
         /\ \A n \in 1..Len(df.rows) :
              /\ \A c \in SeqToSet(df_full.columns) : df_full.rows[n][c] = df.rows[n][c]
              /\ \A c \in SeqToSet(data_only_df.columns) :
                   data_only_df.rows[n][c] = df_full.rows[n][c]
    /\ (pc = "done" /\ DfEmpty(df)) => (df_full = NoFrame /\ data_only_df = NoFrame)

\* Both files written for a plan whose fields name scenario_name.
C8_Witness ==
    /\ pc = "done"
    /\ "scenario_name" \in SeqToSet(test_plan.fields)
    /\ Len(df.rows) >= 2
    /\ Len(df_full.columns) >= 3
    /\ data_only_df.columns # <<>>
    /\ \E n \in 1..Len(log) : log[n].idx >= 1 /\ log[n].resp = ServiceError

=============================================================================
